---- MODULE Spec2Model ----
(***************************************************************************)
(* Model of the GAE Go image optimizer (package optimg, optimg.go).        *)
(*                                                                         *)
(* ParseBlobs parses an upload, then walks every field and every blob of   *)
(* the field through handleBlob, which re-encodes supported images as      *)
(* JPEG, writes the result to the blobstore as a new object and deletes    *)
(* the old object.  The blobstore is modelled as a set of objects whose    *)
(* operations can each fail independently.                                 *)
(***************************************************************************)
EXTENDS Integers, Sequences, FiniteSets, TLC

(***************************************************************************)
(* Bounds of the model.                                                    *)
(***************************************************************************)
\* largest width and height of the images drawn for the size computation
MaxDim == 44
\* largest options.Size drawn for the size computation
MaxSize == 30
\* largest number of blobs in one upload (all fields together)
MaxBlobs == 3

(***************************************************************************)
(* Natural numbers beyond the range of the model checker's integers: a     *)
(* sequence of limbs in base 2^LimbBits, least significant limb first,     *)
(* without leading zero limbs (zero is the empty sequence).                *)
(***************************************************************************)
LimbBits == 13

RECURSIVE Pow2(_)
Pow2(n) == IF n = 0 THEN 1 ELSE 2 * Pow2(n - 1)

Base == Pow2(LimbBits)

\* number of bits of the integer n (0 for n = 0)
RECURSIVE IntBitLen(_)
IntBitLen(n) == IF n = 0 THEN 0 ELSE 1 + IntBitLen(n \div 2)

RECURSIVE Normalize(_)
Normalize(x) ==
    IF x = << >> THEN x
    ELSE IF x[Len(x)] = 0 THEN Normalize(SubSeq(x, 1, Len(x) - 1))
    ELSE x

RECURSIVE BigFromInt(_)
BigFromInt(n) ==
    IF n = 0 THEN << >> ELSE <<n % Base>> \o BigFromInt(n \div Base)

RECURSIVE BigToInt(_)
BigToInt(x) == IF x = << >> THEN 0 ELSE x[1] + Base * BigToInt(Tail(x))

\* x * y + carry, for an integer factor y below 2^18
RECURSIVE BigMulSmall(_, _, _)
BigMulSmall(x, y, carry) ==
    IF x = << >> THEN BigFromInt(carry)
    ELSE LET t == x[1] * y + carry
         IN  <<t % Base>> \o BigMulSmall(Tail(x), y, t \div Base)

\* x + c, for an integer c
RECURSIVE BigAddSmall(_, _)
BigAddSmall(x, c) ==
    IF c = 0 THEN x
    ELSE IF x = << >> THEN BigFromInt(c)
    ELSE LET t == x[1] + c
         IN  <<t % Base>> \o BigAddSmall(Tail(x), t \div Base)

\* quotient (with leading zero limbs) and remainder of x by an integer b
\* below 2^18
RECURSIVE BigDivRem(_, _)
BigDivRem(x, b) ==
    IF x = << >> THEN [q |-> << >>, r |-> 0]
    ELSE LET higher == BigDivRem(Tail(x), b)
             cur    == higher.r * Base + x[1]
         IN  [q |-> <<cur \div b>> \o higher.q, r |-> cur % b]

\* x * 2^n
BigShiftLeft(x, n) ==
    LET limbs == n \div LimbBits
        bits  == n % LimbBits
    IN  [i \in 1..limbs |-> 0] \o BigMulSmall(x, Pow2(bits), 0)

\* floor(x / 2^n)
BigShiftRight(x, n) ==
    LET limbs == n \div LimbBits
        bits  == n % LimbBits
        rest  == IF limbs >= Len(x) THEN << >>
                 ELSE SubSeq(x, limbs + 1, Len(x))
        above(i) == IF i < Len(rest) THEN rest[i + 1] ELSE 0
    IN  Normalize([i \in 1..Len(rest) |->
                      (rest[i] \div Pow2(bits))
                      + (above(i) % Pow2(bits)) * Pow2(LimbBits - bits)])

\* number of bits of x
BigBitLen(x) ==
    IF x = << >> THEN 0
    ELSE (Len(x) - 1) * LimbBits + IntBitLen(x[Len(x)])

\* bit i of x, bit 0 being the least significant
BigBit(x, i) ==
    LET limb == i \div LimbBits + 1
    IN  IF limb > Len(x) THEN 0
        ELSE (x[limb] \div Pow2(i % LimbBits)) % 2

\* x mod 2^n = 0
BigLowZero(x, n) ==
    \A i \in 0..(n - 1) : BigBit(x, i) = 0

(***************************************************************************)
(* float64 arithmetic of the resize block.  A float64 is a significand of  *)
(* MantissaBits bits and the exponent of its last bit: the value is        *)
(* sig * 2^exp.  Results are rounded to nearest, ties to even, as IEEE 754 *)
(* does.                                                                   *)
(***************************************************************************)
MantissaBits == 53

\* number of doublings that bring a into [b, 2b), for 0 < a <= b
RECURSIVE Doublings(_, _)
Doublings(a, b) == IF a >= b THEN 0 ELSE 1 + Doublings(2 * a, b)

\* a significand after rounding, brought back to MantissaBits bits
Renormalize(sig, exp) ==
    IF BigBitLen(sig) > MantissaBits
    THEN [sig |-> BigShiftRight(sig, 1), exp |-> exp + 1]
    ELSE [sig |-> sig, exp |-> exp]

\* float64(a) / float64(b) for integers 0 < a <= b < 2^17
FloatDiv(a, b) ==
    LET e    == Doublings(a, b)
        exp  == 0 - (MantissaBits - 1) - e
        d    == BigDivRem(BigShiftLeft(BigFromInt(a), 0 - exp), b)
        sig  == Normalize(d.q)
        up   == \/ 2 * d.r > b
                \/ 2 * d.r = b /\ BigBit(sig, 0) = 1
    IN  Renormalize(BigAddSmall(sig, IF up THEN 1 ELSE 0), exp)

\* float64(y) * f for an integer 1 <= y < 2^18 and a float64 f
FloatMul(y, f) ==
    LET prod == BigMulSmall(f.sig, y, 0)
        drop == BigBitLen(prod) - MantissaBits
        kept == BigShiftRight(prod, drop)
        half == drop > 0 /\ BigBit(prod, drop - 1) = 1
        more == ~BigLowZero(prod, drop - 1)
        up   == half /\ (more \/ BigBit(kept, 0) = 1)
    IN  Renormalize(BigAddSmall(kept, IF up THEN 1 ELSE 0), f.exp + drop)

\* int(math.Floor(f)) for a float64 0 < f < 2^31
FloatFloor(f) ==
    IF f.exp >= 0 THEN BigToInt(BigShiftLeft(f.sig, f.exp))
    ELSE BigToInt(BigShiftRight(f.sig, 0 - f.exp))

\* int(math.Floor(float64(other) * float64(float64(to)/float64(from))))
ScaleFloor(other, to, from) ==
    IF other = 0 THEN 0 ELSE FloatFloor(FloatMul(other, FloatDiv(to, from)))

(***************************************************************************)
(* Variants of the resize block, each with one plausible slip.             *)
(***************************************************************************)
\* other * to / from rounded to the nearest integer
ScaleRound(other, to, from) == (2 * other * to + from) \div (2 * from)

\* a resize block that rounds to nearest where the code floors
TargetSizeRounded(width, height, Size) ==
    LET resized == Size > 0 /\ (width > Size \/ height > Size)
        pass1   == resized /\ width > Size
        x1      == IF pass1 THEN Size ELSE width
        y1      == IF pass1 THEN ScaleRound(height, x1, width) ELSE height
        pass2   == resized /\ y1 > Size
        y2      == IF pass2 THEN Size ELSE y1
        x2      == IF pass2 THEN ScaleRound(x1, y2, y1) ELSE x1
    IN  [resized |-> resized, pass1 |-> pass1, pass2 |-> pass2,
         size_x |-> x2, size_y |-> y2, width |-> width, height |-> height]

\* a resize block whose first pass takes the ratio after size_x was
\* overwritten, so that the height is not scaled
TargetSizeUnscaled(width, height, Size) ==
    LET resized == Size > 0 /\ (width > Size \/ height > Size)
        pass1   == resized /\ width > Size
        x1      == IF pass1 THEN Size ELSE width
        y1      == IF pass1 THEN ScaleFloor(height, x1, x1) ELSE height
        pass2   == resized /\ y1 > Size
        y2      == IF pass2 THEN Size ELSE y1
        x2      == IF pass2 THEN ScaleFloor(x1, y2, y1) ELSE x1
    IN  [resized |-> resized, pass1 |-> pass1, pass2 |-> pass2,
         size_x |-> x2, size_y |-> y2, width |-> width, height |-> height]

\* a resize block whose guard compares with >= where the code has >
TargetSizeInclusive(width, height, Size) ==
    LET resized == Size > 0 /\ (width >= Size \/ height >= Size)
        pass1   == resized /\ width > Size
        x1      == IF pass1 THEN Size ELSE width
        y1      == IF pass1 THEN ScaleFloor(height, x1, width) ELSE height
        pass2   == resized /\ y1 > Size
        y2      == IF pass2 THEN Size ELSE y1
        x2      == IF pass2 THEN ScaleFloor(x1, y2, y1) ELSE x1
    IN  [resized |-> resized, pass1 |-> pass1, pass2 |-> pass2,
         size_x |-> x2, size_y |-> y2, width |-> width, height |-> height]

\* a resize block without the second pass
TargetSizeOnePass(width, height, Size) ==
    LET resized == Size > 0 /\ (width > Size \/ height > Size)
        pass1   == resized /\ width > Size
        x1      == IF pass1 THEN Size ELSE width
        y1      == IF pass1 THEN ScaleFloor(height, x1, width) ELSE height
    IN  [resized |-> resized, pass1 |-> pass1, pass2 |-> FALSE,
         size_x |-> x1, size_y |-> y1, width |-> width, height |-> height]

(***************************************************************************)
(* The resize block of handleBlob: the size handed to resize.Resize for an *)
(* image of the given bounds, and which of the two clamping passes ran.    *)
(***************************************************************************)
TargetSize(width, height, Size) ==
    LET resized == Size > 0 /\ (width > Size \/ height > Size)
        pass1   == resized /\ width > Size
        x1      == IF pass1 THEN Size ELSE width
        y1      == IF pass1 THEN ScaleFloor(height, x1, width) ELSE height
        pass2   == resized /\ y1 > Size
        y2      == IF pass2 THEN Size ELSE y1
        x2      == IF pass2 THEN ScaleFloor(x1, y2, y1) ELSE x1
    IN  [resized |-> resized, pass1 |-> pass1, pass2 |-> pass2,
         size_x |-> x2, size_y |-> y2, width |-> width, height |-> height]

(***************************************************************************)
(* Content types are strings, modelled as sequences of characters.         *)
(***************************************************************************)
\* the letters strings.ToLower maps to an ASCII letter: A to Z, and the two
\* runes outside ASCII whose lower case is ASCII, U+0130 (capital I with dot
\* above) and U+212A (Kelvin sign); a rune is one element of a string
DottedI == "U+0130"
Kelvin  == "U+212A"
UpperCase == <<"A", "B", "C", "D", "E", "F", "G", "H", "I", "J", "K", "L",
               "M", "N", "O", "P", "Q", "R", "S", "T", "U", "V", "W", "X",
               "Y", "Z", DottedI, Kelvin>>
LowerCase == <<"a", "b", "c", "d", "e", "f", "g", "h", "i", "j", "k", "l",
               "m", "n", "o", "p", "q", "r", "s", "t", "u", "v", "w", "x",
               "y", "z", "i", "k">>

\* strings.ToLower
ToLower(str) ==
    [i \in DOMAIN str |->
        IF \E k \in DOMAIN UpperCase : UpperCase[k] = str[i]
        THEN LowerCase[CHOOSE k \in DOMAIN UpperCase : UpperCase[k] = str[i]]
        ELSE str[i]]

ImageJpeg == <<"i", "m", "a", "g", "e", "/", "j", "p", "e", "g">>
ImageJpg  == <<"i", "m", "a", "g", "e", "/", "j", "p", "g">>
ImagePng  == <<"i", "m", "a", "g", "e", "/", "p", "n", "g">>
ImageGif  == <<"i", "m", "a", "g", "e", "/", "g", "i", "f">>

\* the keys of the map allowedMimeTypes, all mapped to true
allowedMimeTypes == {ImageJpeg, ImageJpg, ImagePng, ImageGif}

\* a validateMimeType that lets every content type through
validateMimeTypeAlways(blob) == Len(ToLower(blob.ContentType)) >= 0

\* a validateMimeType that looks the content type up as it is
validateMimeTypeExact(blob) == blob.ContentType \in allowedMimeTypes

validateMimeType(blob) == ToLower(blob.ContentType) \in allowedMimeTypes

(***************************************************************************)
(* State.                                                                  *)
(***************************************************************************)
VARIABLES
    request,      \* the upload carried by options.Request
    options,      \* the compressionOptions given to ParseBlobs
    objects,      \* the blobstore: BlobKey -> content type and image bytes
    nextKey,      \* the BlobKey the blobstore gives to the next new object
    pc,           \* position of the program
    blobs,        \* ParseBlobs: result blobs
    other,        \* ParseBlobs: result other
    err,          \* ParseBlobs: result err
    todo,         \* ParseBlobs: field names the range loop has not visited
    keyName,      \* ParseBlobs: loop variable
    index,        \* handleBlobSlice: loop variable
    blob,         \* handleBlob: result blob
    img,          \* handleBlob: the decoded image
    size,         \* handleBlob: size_x, size_y and the passes that ran
    writer,       \* handleBlob: the blobstore writer
    newKey,       \* handleBlob: key of the new object
    newBlobInfo,  \* handleBlob: BlobInfo of the new object
    ops,          \* history: blobstore calls of the current handleBlob call
    confirmed,    \* history: <<old key, new key>> for every successful Stat
    calls,        \* history: how often handleBlob was called for each entry
    run           \* history: how often the current image was transcoded

vars == <<request, options, objects, nextKey, pc, blobs, other, err, todo,
          keyName, index, blob, img, size, writer, newKey, newBlobInfo, ops,
          confirmed, calls, run>>

ApplicationPdf == <<"a", "p", "p", "l", "i", "c", "a", "t", "i", "o", "n",
                    "/", "p", "d", "f">>
UpperImagePng  == <<"I", "M", "A", "G", "E", "/", "P", "N", "G">>

NoImage   == [ok |-> FALSE, w |-> 0, h |-> 0]
NoBlob    == [BlobKey |-> 0, ContentType |-> << >>]
NoWriter  == [open |-> FALSE, key |-> 0, ContentType |-> << >>,
              image |-> NoImage]
NoSize    == TargetSize(0, 0, 0)
NilBlobs  == [f \in {} |-> << >>]
NilValues == [f \in {} |-> << >>]
Image(w, h) == [ok |-> TRUE, w |-> w, h |-> h]

\* what an uploaded blob can be: its declared content type and its bytes
BlobKinds ==
    { [ContentType |-> ImageJpeg,      image |-> Image(3, 2)],
      [ContentType |-> UpperImagePng,  image |-> Image(3, 4)],
      [ContentType |-> ApplicationPdf, image |-> NoImage] }

\* the values of options.Size drawn for a whole upload
SizeChoices == {0, 2}

\* the uploads with lenA blobs under "a" and lenB under "b", of these kinds
UploadOf(lenA, lenB, kinds) ==
    LET info(k) == [BlobKey |-> k, ContentType |-> kinds[k].ContentType]
        slice(f) == IF f = "a" THEN [i \in 1..lenA |-> info(i)]
                    ELSE [i \in 1..lenB |-> info(lenA + i)]
        names    == {f \in {"a", "b"} : Len(slice(f)) > 0}
    IN  [blobs  |-> [f \in names |-> slice(f)],
         other  |-> [f \in {"title"} |-> <<"x">>],
         stored |-> [k \in 1..(lenA + lenB) |->
                        [ContentType |-> kinds[k].ContentType,
                         image |-> kinds[k].image]]]

Uploads ==
    UNION { { UploadOf(lenA, n - lenA, kinds) :
                lenA \in 0..n, kinds \in [1..n -> BlobKinds] } :
            n \in 0..MaxBlobs }

DefaultQuality == 75

\* NewCompressionOptions, with Size then set by the caller
NewCompressionOptions(Size) == [Quality |-> DefaultQuality, Size |-> Size]

\* the errors blobstore.ParseUpload can return for a request
ParseErrors == {"malformed upload", "blobstore unavailable"}

Init ==
    /\ request \in {[blobs |-> u.blobs, other |-> u.other, fault |-> e] :
                       u \in Uploads, e \in {"nil"} \cup ParseErrors}
    /\ objects \in {u.stored : u \in {v \in Uploads : v.blobs = request.blobs}}
    /\ options \in {NewCompressionOptions(s) : s \in SizeChoices}
    /\ nextKey = Len(objects) + 1
    /\ pc = "ParseUpload"
    /\ blobs = NilBlobs
    /\ other = NilValues
    /\ err = "nil"
    /\ todo = {}
    /\ keyName = ""
    /\ index = 0
    /\ blob = NoBlob
    /\ img = NoImage
    /\ size = NoSize
    /\ writer = NoWriter
    /\ newKey = 0
    /\ newBlobInfo = NoBlob
    /\ ops = << >>
    /\ confirmed = {}
    /\ calls = << >>
    /\ run = 0

Call(op, key, ok) == [op |-> op, key |-> key, ok |-> ok]

HandleBlobLocals == <<blob, img, size, writer, newKey, newBlobInfo, run>>
Loop == <<todo, keyName, index>>
Results == <<blobs, other, err>>
Given == <<request, options>>

(***************************************************************************)
(* ParseBlobs and handleBlobSlice.                                         *)
(***************************************************************************)
\* a ParseBlobs that shadows err, so that the caller gets nil
ParseBlobsShadowed ==
    /\ pc = "ParseUpload"
    /\ IF request.fault = "nil"
       THEN /\ blobs' = request.blobs
            /\ other' = request.other
            /\ todo' = DOMAIN request.blobs
            /\ pc' = "range"
       ELSE /\ blobs' = NilBlobs
            /\ other' = NilValues
            /\ todo' = {}
            /\ pc' = "done"
    /\ err' = "nil"
    /\ UNCHANGED <<Given, objects, nextKey, keyName, index, HandleBlobLocals,
                   ops, confirmed, calls>>

\* blobs, other, err = blobstore.ParseUpload(options.Request); the request
\* decides whether the parser fails, and with which error
ParseBlobs ==
    /\ pc = "ParseUpload"
    /\ IF request.fault = "nil"
       THEN /\ blobs' = request.blobs
            /\ other' = request.other
            /\ err' = "nil"
            /\ todo' = DOMAIN request.blobs
            /\ pc' = "range"
       ELSE /\ blobs' = NilBlobs
            /\ other' = NilValues
            /\ err' = request.fault
            /\ todo' = {}
            /\ pc' = "done"
    /\ UNCHANGED <<Given, objects, nextKey, keyName, index, HandleBlobLocals,
                   ops, confirmed, calls>>

\* for keyName, blobSlice := range blobs: the order is unspecified
RangeBlobs ==
    /\ pc = "range"
    /\ IF todo = {}
       THEN /\ pc' = "done"
            /\ UNCHANGED <<keyName, index>>
       ELSE /\ \E f \in todo : keyName' = f
            /\ index' = 1
            /\ pc' = "slice"
    /\ UNCHANGED <<Given, objects, nextKey, Results, todo, HandleBlobLocals,
                   ops, confirmed, calls>>

\* one more call of handleBlob for the entry
Called(entry) ==
    IF entry \in DOMAIN calls
    THEN [calls EXCEPT ![entry] = @ + 1]
    ELSE (entry :> 1) @@ calls

\* for index, blobInfo := range blobSlice, and the call of handleBlob
handleBlobSlice ==
    /\ pc = "slice"
    /\ IF index <= Len(blobs[keyName])
       THEN /\ blob' = blobs[keyName][index]
            /\ ops' = << >>
            /\ run' = 1
            /\ calls' = Called(<<keyName, index>>)
            /\ pc' = "validate"
            /\ UNCHANGED todo
       ELSE /\ todo' = todo \ {keyName}
            /\ pc' = "range"
            /\ UNCHANGED <<blob, ops, run, calls>>
    /\ UNCHANGED <<Given, objects, nextKey, Results, keyName, index, img,
                   size, writer, newKey, newBlobInfo, confirmed>>

\* a Return that stores every result in the first slot of the slice
ReturnFirst ==
    /\ pc = "return"
    /\ blobs' = [blobs EXCEPT ![keyName][1] = blob]
    /\ index' = index + 1
    /\ blob' = NoBlob
    /\ img' = NoImage
    /\ size' = NoSize
    /\ writer' = NoWriter
    /\ newKey' = 0
    /\ newBlobInfo' = NoBlob
    /\ run' = 0
    /\ pc' = "slice"
    /\ UNCHANGED <<Given, objects, nextKey, other, err, todo, keyName, ops,
                   confirmed, calls>>

\* blobSlice[index] = handleBlob(options, blobInfo)
Return ==
    /\ pc = "return"
    /\ blobs' = [blobs EXCEPT ![keyName][index] = blob]
    /\ index' = index + 1
    /\ blob' = NoBlob
    /\ img' = NoImage
    /\ size' = NoSize
    /\ writer' = NoWriter
    /\ newKey' = 0
    /\ newBlobInfo' = NoBlob
    /\ run' = 0
    /\ pc' = "slice"
    /\ UNCHANGED <<Given, objects, nextKey, other, err, todo, keyName, ops,
                   confirmed, calls>>

(***************************************************************************)
(* handleBlob, one action per blobstore call.  Every call can fail.        *)
(***************************************************************************)
\* if !validateMimeType(blob) { return }
Validate ==
    /\ pc = "validate"
    /\ pc' = IF validateMimeType(blob) THEN "decode" ELSE "return"
    /\ UNCHANGED <<Given, objects, nextKey, Results, Loop, HandleBlobLocals,
                   ops, confirmed, calls>>

\* a Decode whose failure ends the whole batch
DecodeAborting ==
    /\ pc = "decode"
    /\ \E readOk \in BOOLEAN :
         LET ok == /\ readOk
                   /\ blob.BlobKey \in DOMAIN objects
                   /\ objects[blob.BlobKey].image.ok
         IN  /\ ops' = Append(ops, Call("read", blob.BlobKey, ok))
             /\ IF ok
                THEN /\ img' = objects[blob.BlobKey].image
                     /\ pc' = "resize"
                ELSE /\ pc' = "done"
                     /\ UNCHANGED img
    /\ UNCHANGED <<Given, objects, nextKey, Results, Loop, blob, size, writer,
                   newKey, newBlobInfo, run, confirmed, calls>>

\* reader := blobstore.NewReader(...); img, _, err := image.Decode(reader)
Decode ==
    /\ pc = "decode"
    /\ \E readOk \in BOOLEAN :
         LET ok == /\ readOk
                   /\ blob.BlobKey \in DOMAIN objects
                   /\ objects[blob.BlobKey].image.ok
         IN  /\ ops' = Append(ops, Call("read", blob.BlobKey, ok))
             /\ IF ok
                THEN /\ img' = objects[blob.BlobKey].image
                     /\ pc' = "resize"
                ELSE /\ pc' = "return"
                     /\ UNCHANGED img
    /\ UNCHANGED <<Given, objects, nextKey, Results, Loop, blob, size, writer,
                   newKey, newBlobInfo, run, confirmed, calls>>

\* the resize block: img = resize.Resize(img, img.Bounds(), size_x, size_y)
Resize ==
    /\ pc = "resize"
    /\ LET target == TargetSize(img.w, img.h, options.Size)
       IN  /\ size' = target
           /\ img' = IF target.resized
                     THEN Image(target.size_x, target.size_y)
                     ELSE img
    /\ pc' = "create"
    /\ UNCHANGED <<Given, objects, nextKey, Results, Loop, blob, writer,
                   newKey, newBlobInfo, run, ops, confirmed, calls>>

\* a Create that keeps the content type of the blob it was given
CreateSameType ==
    /\ pc = "create"
    /\ \E ok \in BOOLEAN :
         /\ ops' = Append(ops, Call("create", nextKey, ok))
         /\ IF ok
            THEN /\ writer' = [open |-> TRUE, key |-> nextKey,
                               ContentType |-> blob.ContentType,
                               image |-> NoImage]
                 /\ nextKey' = nextKey + 1
                 /\ pc' = "encode"
            ELSE /\ pc' = "return"
                 /\ UNCHANGED <<writer, nextKey>>
    /\ UNCHANGED <<Given, objects, Results, Loop, blob, img, size, newKey,
                   newBlobInfo, run, confirmed, calls>>

\* a Create that deletes the old blob before the new one is written
CreateDeletingOld ==
    /\ pc = "create"
    /\ \E ok \in BOOLEAN :
         /\ ops' = ops \o <<Call("delete", blob.BlobKey, TRUE),
                            Call("create", nextKey, ok)>>
         /\ objects' = [k \in DOMAIN objects \ {blob.BlobKey} |-> objects[k]]
         /\ IF ok
            THEN /\ writer' = [open |-> TRUE, key |-> nextKey,
                               ContentType |-> ImageJpeg, image |-> NoImage]
                 /\ nextKey' = nextKey + 1
                 /\ pc' = "encode"
            ELSE /\ pc' = "return"
                 /\ UNCHANGED <<writer, nextKey>>
    /\ UNCHANGED <<Given, Results, Loop, blob, img, size, newKey,
                   newBlobInfo, run, confirmed, calls>>

\* writer, err := blobstore.Create(options.Context, "image/jpeg")
Create ==
    /\ pc = "create"
    /\ \E ok \in BOOLEAN :
         /\ ops' = Append(ops, Call("create", nextKey, ok))
         /\ IF ok
            THEN /\ writer' = [open |-> TRUE, key |-> nextKey,
                               ContentType |-> ImageJpeg, image |-> NoImage]
                 /\ nextKey' = nextKey + 1
                 /\ pc' = "encode"
            ELSE /\ pc' = "return"
                 /\ UNCHANGED <<writer, nextKey>>
    /\ UNCHANGED <<Given, objects, Results, Loop, blob, img, size, newKey,
                   newBlobInfo, run, confirmed, calls>>

\* the object a closed writer leaves in the blobstore
Stored(w) == [ContentType |-> w.ContentType, image |-> w.image]

\* jpeg.Encode(writer, img, o); on failure _ = writer.Close() and return
Encode ==
    /\ pc = "encode"
    /\ \/ /\ ops' = Append(ops, Call("encode", writer.key, TRUE))
          /\ writer' = [writer EXCEPT !.image = img]
          /\ pc' = "close"
          /\ UNCHANGED objects
       \/ \E closeOk \in BOOLEAN :
            /\ ops' = ops \o <<Call("encode", writer.key, FALSE),
                               Call("close", writer.key, closeOk)>>
            /\ writer' = [writer EXCEPT !.open = FALSE]
            /\ objects' = IF closeOk
                          THEN (writer.key :> Stored(writer)) @@ objects
                          ELSE objects
            /\ pc' = "return"
    /\ UNCHANGED <<Given, nextKey, Results, Loop, blob, img, size, newKey,
                   newBlobInfo, run, confirmed, calls>>

\* if err := writer.Close(); err != nil { return }
Close ==
    /\ pc = "close"
    /\ \E ok \in BOOLEAN :
         /\ ops' = Append(ops, Call("close", writer.key, ok))
         /\ writer' = [writer EXCEPT !.open = FALSE]
         /\ IF ok
            THEN /\ objects' = (writer.key :> Stored(writer)) @@ objects
                 /\ pc' = "key"
            ELSE /\ pc' = "return"
                 /\ UNCHANGED objects
    /\ UNCHANGED <<Given, nextKey, Results, Loop, blob, img, size, newKey,
                   newBlobInfo, run, confirmed, calls>>

\* newKey, err := writer.Key()
Key ==
    /\ pc = "key"
    /\ \E ok \in BOOLEAN :
         /\ ops' = Append(ops, Call("key", writer.key, ok))
         /\ IF ok
            THEN /\ newKey' = writer.key
                 /\ pc' = "stat"
            ELSE /\ pc' = "return"
                 /\ UNCHANGED newKey
    /\ UNCHANGED <<Given, objects, nextKey, Results, Loop, blob, img, size,
                   writer, newBlobInfo, run, confirmed, calls>>

\* a Stat whose error is not checked
StatUnchecked ==
    /\ pc = "stat"
    /\ \E statOk \in BOOLEAN :
         LET ok == statOk /\ newKey \in DOMAIN objects
         IN  /\ ops' = Append(ops, Call("stat", newKey, ok))
             /\ newBlobInfo' =
                  IF ok
                  THEN [BlobKey |-> newKey,
                        ContentType |-> objects[newKey].ContentType]
                  ELSE NoBlob
             /\ confirmed' = IF ok
                             THEN confirmed \cup {<<blob.BlobKey, newKey>>}
                             ELSE confirmed
             /\ pc' = "delete"
    /\ UNCHANGED <<Given, objects, nextKey, Results, Loop, blob, img, size,
                   writer, newKey, run, calls>>

\* newBlobInfo, err := blobstore.Stat(options.Context, newKey)
Stat ==
    /\ pc = "stat"
    /\ \E statOk \in BOOLEAN :
         LET ok == statOk /\ newKey \in DOMAIN objects
         IN  /\ ops' = Append(ops, Call("stat", newKey, ok))
             /\ IF ok
                THEN /\ newBlobInfo' =
                          [BlobKey |-> newKey,
                           ContentType |-> objects[newKey].ContentType]
                     /\ confirmed' = confirmed \cup {<<blob.BlobKey, newKey>>}
                     /\ pc' = "delete"
                ELSE /\ pc' = "return"
                     /\ UNCHANGED <<newBlobInfo, confirmed>>
    /\ UNCHANGED <<Given, objects, nextKey, Results, Loop, blob, img, size,
                   writer, newKey, run, calls>>

\* _ = blobstore.Delete(options.Context, blobkey)
deleteOldBlob(blobkey, ok) ==
    /\ ops' = Append(ops, Call("delete", blobkey, ok))
    /\ objects' = IF ok
                  THEN [k \in DOMAIN objects \ {blobkey} |-> objects[k]]
                  ELSE objects

\* a Delete that checks the error of the delete and keeps the old ref
DeleteSurfaced ==
    /\ pc = "delete"
    /\ \E ok \in BOOLEAN :
         /\ deleteOldBlob(blob.BlobKey, ok)
         /\ blob' = IF ok THEN newBlobInfo ELSE blob
    /\ pc' = "return"
    /\ UNCHANGED <<Given, nextKey, Results, Loop, img, size, writer, newKey,
                   newBlobInfo, run, confirmed, calls>>

\* a Delete that deletes the old object and keeps its ref as the result
DeleteKeepingRef ==
    /\ pc = "delete"
    /\ \E ok \in BOOLEAN : deleteOldBlob(blob.BlobKey, ok)
    /\ pc' = "return"
    /\ UNCHANGED <<Given, nextKey, Results, Loop, blob, img, size, writer,
                   newKey, newBlobInfo, run, confirmed, calls>>

\* a Delete that replaces blob first and so deletes the new object
DeleteNew ==
    /\ pc = "delete"
    /\ \E ok \in BOOLEAN : deleteOldBlob(newBlobInfo.BlobKey, ok)
    /\ blob' = newBlobInfo
    /\ pc' = "return"
    /\ UNCHANGED <<Given, nextKey, Results, Loop, img, size, writer, newKey,
                   newBlobInfo, run, confirmed, calls>>

\* deleteOldBlob(options, blob.BlobKey); blob = newBlobInfo; return
Delete ==
    /\ pc = "delete"
    /\ \E ok \in BOOLEAN : deleteOldBlob(blob.BlobKey, ok)
    /\ blob' = newBlobInfo
    /\ pc' = "return"
    /\ UNCHANGED <<Given, nextKey, Results, Loop, img, size, writer, newKey,
                   newBlobInfo, run, confirmed, calls>>

Next ==
    \/ ParseBlobs
    \/ RangeBlobs
    \/ handleBlobSlice
    \/ Validate
    \/ Decode
    \/ Resize
    \/ Create
    \/ Encode
    \/ Close
    \/ Key
    \/ Stat
    \/ Delete
    \/ Return

Spec == Init /\ [][Next]_vars

(***************************************************************************)
(* The size computation on its own: handleBlob has decoded the only blob   *)
(* of an upload, an image of any size up to the bounds, and resizes it;    *)
(* the result is then transcoded a second time with the same options.      *)
(***************************************************************************)
\* the end-to-end scenario of the documentation
Example == [width |-> 3000, height |-> 2000, Size |-> 1600]

SizeInputs ==
    { [width |-> w, height |-> h, Size |-> s] :
        w \in 1..MaxDim, h \in 1..MaxDim, s \in 0..MaxSize } \cup {Example}

InitSize ==
    \E in \in SizeInputs :
      LET info == [BlobKey |-> 1, ContentType |-> ImageJpeg]
      IN  /\ request = [blobs |-> [f \in {"a"} |-> <<info>>],
                        other |-> NilValues, fault |-> "nil"]
          /\ options = NewCompressionOptions(in.Size)
          /\ objects = 1 :> [ContentType |-> ImageJpeg,
                             image |-> Image(in.width, in.height)]
          /\ nextKey = 2
          /\ pc = "resize"
          /\ blobs = request.blobs
          /\ other = request.other
          /\ err = "nil"
          /\ todo = {"a"}
          /\ keyName = "a"
          /\ index = 1
          /\ blob = info
          /\ img = Image(in.width, in.height)
          /\ size = NoSize
          /\ writer = NoWriter
          /\ newKey = 0
          /\ newBlobInfo = NoBlob
          /\ ops = <<Call("read", 1, TRUE)>>
          /\ confirmed = {}
          /\ calls = <<"a", 1>> :> 1
          /\ run = 1

\* handleBlob run again on the blob it returned: image.Decode gives the
\* image that jpeg.Encode was handed, with the same bounds
Retranscode ==
    /\ pc = "create"
    /\ run = 1
    /\ run' = 2
    /\ pc' = "resize"
    /\ UNCHANGED <<Given, objects, nextKey, Results, Loop, blob, img, size,
                   writer, newKey, newBlobInfo, ops, confirmed, calls>>

NextSize ==
    \/ Resize
    \/ Retranscode

SpecSize == InitSize /\ [][NextSize]_vars

(***************************************************************************)
(* validateMimeType on its own: handleBlob is called with a blob of any    *)
(* content type of ContentTypes.                                           *)
(***************************************************************************)
\* the longest run of characters put before or after a supported type
MaxPad == 2

\* the ASCII upper case of a character
Upper(c) ==
    IF \E k \in 1..26 : LowerCase[k] = c
    THEN UpperCase[CHOOSE k \in 1..26 : LowerCase[k] = c]
    ELSE c

\* every spelling of str in upper and lower case letters
CaseVariants(str) ==
    { [i \in DOMAIN str |->
          IF (mask \div Pow2(i - 1)) % 2 = 1 THEN Upper(str[i]) ELSE str[i]] :
        mask \in 0..(Pow2(Len(str)) - 1) }

\* whitespace, a parameter separator or one more letter
PadChars == {" ", ";", "x"}

Pads == UNION { [1..n -> PadChars] : n \in 1..MaxPad }

\* str with each letter i replaced by the rune U+0130, one at a time
Dotted(str) ==
    { [i \in DOMAIN str |-> IF i = k THEN DottedI ELSE str[i]] :
        k \in {j \in DOMAIN str : str[j] \in {"i", "I"}} }

ContentTypes ==
    UNION { CaseVariants(t) : t \in allowedMimeTypes }
    \cup UNION { {pad \o t, t \o pad, SubSeq(t, 1, Len(t) - 1)} :
                   t \in allowedMimeTypes \cup {UpperImagePng},
                   pad \in Pads }
    \cup UNION { Dotted(t) : t \in allowedMimeTypes \cup {UpperImagePng} }
    \cup { << >>, ApplicationPdf, <<"i", "m", "a", "g", "e", "/">>,
           <<"i", "m", "a", "g", "e", "/", "b", "m", "p">>,
           <<"j", "p", "e", "g">>, <<Kelvin>> }

InitMime ==
    \E contentType \in ContentTypes :
      LET info == [BlobKey |-> 1, ContentType |-> contentType]
      IN  /\ request = [blobs |-> [f \in {"a"} |-> <<info>>],
                        other |-> NilValues, fault |-> "nil"]
          /\ options = NewCompressionOptions(0)
          /\ objects = 1 :> [ContentType |-> contentType,
                             image |-> NoImage]
          /\ nextKey = 2
          /\ pc = "validate"
          /\ blobs = request.blobs
          /\ other = request.other
          /\ err = "nil"
          /\ todo = {"a"}
          /\ keyName = "a"
          /\ index = 1
          /\ blob = info
          /\ img = NoImage
          /\ size = NoSize
          /\ writer = NoWriter
          /\ newKey = 0
          /\ newBlobInfo = NoBlob
          /\ ops = << >>
          /\ confirmed = {}
          /\ calls = <<"a", 1>> :> 1
          /\ run = 1

NextMime == Validate

SpecMime == InitMime /\ [][NextMime]_vars

(***************************************************************************)
(* Properties of the replacement protocol (specification Spec).            *)
(***************************************************************************)
\* the ref the current handleBlob call was given
Original == blobs[keyName][index]

\* the refs the upload carries, and their keys
Uploaded ==
    UNION { { request.blobs[f][i] : i \in DOMAIN request.blobs[f] } :
            f \in DOMAIN request.blobs }

UploadedKeys == { b.BlobKey : b \in Uploaded }

WriteSteps == {"read", "create", "encode", "close", "key", "stat"}

SomeStepFailed == \E i \in DOMAIN ops : ops[i].op \in WriteSteps /\ ~ops[i].ok

DeleteIssued == \E i \in DOMAIN ops : ops[i].op = "delete"

\* C1: a delete is issued only after create, encode, close, key and stat of
\* the new object succeeded, in this order, and an uploaded object is absent
\* from the store only if Stat confirmed a new object for it.
C1_DeleteOnlyAfterStat ==
    /\ \A i \in DOMAIN ops :
         ops[i].op = "delete" =>
           /\ i > 5
           /\ LET n == ops[i - 1].key
              IN  /\ ops[i - 5] = Call("create", n, TRUE)
                  /\ ops[i - 4] = Call("encode", n, TRUE)
                  /\ ops[i - 3] = Call("close", n, TRUE)
                  /\ ops[i - 2] = Call("key", n, TRUE)
                  /\ ops[i - 1] = Call("stat", n, TRUE)
                  /\ n # ops[i].key
                  /\ <<ops[i].key, n>> \in confirmed
    /\ \A k \in UploadedKeys :
         k \notin DOMAIN objects =>
           \E n \in DOMAIN objects : <<k, n>> \in confirmed

\* C1 witness: an uploaded object has been deleted
C1_OldDeleted ==
    /\ DeleteIssued
    /\ \E k \in UploadedKeys : k \notin DOMAIN objects

\* C2: when a step up to Stat failed, handleBlob returns the ref it was given,
\* the old object is still in the store and no delete was issued.
C2_FailureKeepsOriginal ==
    (pc = "return" /\ SomeStepFailed) =>
        /\ blob = Original
        /\ Original.BlobKey \in DOMAIN objects
        /\ ~DeleteIssued

\* C2 witness: handleBlob returns after Stat of the new key failed
C2_StatFailed ==
    /\ pc = "return"
    /\ ops # << >>
    /\ ops[Len(ops)].op = "stat"
    /\ ~ops[Len(ops)].ok
    /\ writer.key \in DOMAIN objects

\* C3 as stated: after a successful replacement the old object is no longer
\* in the store, whatever the delete call did.
C3_OldAbsentAfterReplacement ==
    (pc = "return" /\ blob # Original) =>
        Original.BlobKey \notin DOMAIN objects

\* C3 amended: after a successful replacement the delete of the old object
\* was issued, once and as the last call, and the old object is absent from
\* the store if that delete succeeded; the new object is in the store.
C3_OldAbsentIfDeleteSucceeded ==
    (pc = "return" /\ blob # Original) =>
        /\ ops # << >>
        /\ ops[Len(ops)].op = "delete"
        /\ ops[Len(ops)].key = Original.BlobKey
        /\ Cardinality({i \in DOMAIN ops : ops[i].op = "delete"}) = 1
        /\ ops[Len(ops)].ok => Original.BlobKey \notin DOMAIN objects
        /\ blob.BlobKey \in DOMAIN objects

\* C3 witness: a replacement whose delete succeeded
C3_Replaced ==
    /\ pc = "return"
    /\ blob # Original
    /\ Original.BlobKey \notin DOMAIN objects

\* C4: the blobs mapping has the field names of the parsed mapping, as many
\* entries under each, and every entry is the parsed entry at the same index
\* or the replacement made from it.
C4_SameShape ==
    (pc # "ParseUpload" /\ err = "nil") =>
        /\ DOMAIN blobs = DOMAIN request.blobs
        /\ \A f \in DOMAIN blobs :
             /\ Len(blobs[f]) = Len(request.blobs[f])
             /\ \A i \in DOMAIN blobs[f] :
                  \/ blobs[f][i] = request.blobs[f][i]
                  \/ /\ <<request.blobs[f][i].BlobKey, blobs[f][i].BlobKey>>
                          \in confirmed
                     /\ blobs[f][i].BlobKey \notin UploadedKeys

\* C4 witness: ParseBlobs is done with two fields, one entry replaced and one
\* entry kept
C4_MixedResult ==
    /\ pc = "done"
    /\ err = "nil"
    /\ Cardinality(DOMAIN blobs) = 2
    /\ \E f \in DOMAIN blobs : \E i \in DOMAIN blobs[f] :
         blobs[f][i] # request.blobs[f][i]
    /\ \E f \in DOMAIN blobs : \E i \in DOMAIN blobs[f] :
         blobs[f][i] = request.blobs[f][i]

Unsupported(b) == ToLower(b.ContentType) \notin allowedMimeTypes

\* C5: for a ref of unsupported content type handleBlob returns the ref it
\* was given and calls the blobstore not at all, and no such object is ever
\* deleted.
C5_UnsupportedUntouched ==
    /\ (pc = "return" /\ Unsupported(Original)) =>
          /\ blob = Original
          /\ ops = << >>
    /\ \A b \in Uploaded :
          Unsupported(b) =>
            /\ b.BlobKey \in DOMAIN objects
            /\ objects[b.BlobKey].ContentType = b.ContentType
            /\ \A n \in DOMAIN objects : <<b.BlobKey, n>> \notin confirmed

\* C5 witness: handleBlob returns for a ref of unsupported content type
C5_UnsupportedReturned ==
    /\ pc = "return"
    /\ Unsupported(Original)
    /\ blob = Original

(***************************************************************************)
(* Properties of the size computation (specification SpecSize).            *)
(***************************************************************************)
\* the resize block has run on the decoded upload
Resized1 == pc = "create" /\ run = 1

\* the resize block has run on the transcoded output
Resized2 == pc = "create" /\ run = 2

IsExample ==
    /\ size.width = Example.width
    /\ size.height = Example.height
    /\ options.Size = Example.Size

\* C6 as stated: 3000x2000 with maximum dimension 1600 becomes 1600x1067.
C6_Example1067 ==
    (Resized1 /\ IsExample) => (size.size_x = 1600 /\ size.size_y = 1067)

\* C6 amended: 3000x2000 with maximum dimension 1600 becomes 1600x1066, the
\* floor of 2000 * 1600 / 3000 = 1066.67.
C6_Example1066 ==
    (Resized1 /\ IsExample) =>
        /\ size.size_x = 1600
        /\ size.size_y = 1066
        /\ img = Image(1600, 1066)

\* C6 witness: the example image has been resized
C6_ExampleResized == Resized1 /\ IsExample /\ size.resized /\ size.pass1

\* some dimension exceeds a positive maximum dimension
Exceeds ==
    /\ options.Size > 0
    /\ size.width > options.Size \/ size.height > options.Size

\* the result is one scaling of (larger, smaller) by Size / larger, floored
SingleScaling(larger, smaller, newLarger, newSmaller) ==
    /\ newLarger = options.Size
    /\ newSmaller = (smaller * options.Size) \div larger

\* C7 as stated: whenever a dimension exceeds the maximum, the larger
\* dimension becomes the maximum and the other floor(other * max / larger).
C7_SingleScaling ==
    (Resized1 /\ Exceeds) =>
        IF size.width >= size.height
        THEN SingleScaling(size.width, size.height, size.size_x, size.size_y)
        ELSE SingleScaling(size.height, size.width, size.size_y, size.size_x)

\* the result is one scaling of (larger, smaller) by Size / larger, floored
\* after the float64 product, which falls one short of an exact quotient
\* when the rounded ratio is below the true one
FloatScaling(larger, smaller, newLarger, newSmaller) ==
    LET exact == (smaller * options.Size) \div larger
    IN  /\ newLarger = options.Size
        /\ newSmaller \in {exact, exact - 1}
        /\ (smaller * options.Size) % larger # 0 => newSmaller = exact

\* C7 amended: when width >= height, or when only the height exceeds the
\* maximum, exactly one pass runs, the larger dimension becomes the maximum
\* and the other is the floor of the float64 product other * (max / larger):
\* floor(other * max / larger), or one less when that quotient is exact.
C7_SingleScalingWhenOnePass ==
    (Resized1 /\ Exceeds) =>
        /\ size.width >= size.height =>
             /\ size.pass1 /\ ~size.pass2
             /\ FloatScaling(size.width, size.height,
                             size.size_x, size.size_y)
        /\ size.width <= options.Size =>
             /\ ~size.pass1 /\ size.pass2
             /\ FloatScaling(size.height, size.width,
                             size.size_y, size.size_x)

\* C7 witness: both dimensions exceed the maximum and the width is larger
C7_BothExceedWidthLarger ==
    /\ Resized1
    /\ Exceeds
    /\ size.width > size.height
    /\ size.height > options.Size
    /\ size.size_y < options.Size

\* C8: with maximum dimension 0, or both dimensions within the maximum, no
\* resize is performed and the encoder gets the image in its input size.
C8_NoResizeWithinBound ==
    (pc = "create" /\ (options.Size = 0
                        \/ (size.width <= options.Size
                            /\ size.height <= options.Size))) =>
        /\ ~size.resized
        /\ ~size.pass1 /\ ~size.pass2
        /\ size.size_x = size.width
        /\ size.size_y = size.height
        /\ img = Image(size.width, size.height)

\* C8 witness: an image whose width is exactly the maximum dimension
C8_AtBound ==
    /\ Resized1
    /\ options.Size > 0
    /\ size.width = options.Size
    /\ size.height <= options.Size

C10_Idempotent ==
    /\ (pc = "create" /\ options.Size > 0) =>
          /\ img.w <= options.Size
          /\ img.h <= options.Size
    /\ Resized2 =>
          /\ ~size.resized
          /\ size.size_x = size.width
          /\ size.size_y = size.height
          /\ img = Image(size.width, size.height)

\* C10 witness: the second run on an image the first run made smaller
C10_SecondRunAfterResize ==
    /\ Resized2
    /\ objects[1].image.w > img.w
    /\ objects[1].image.h > img.h

(***************************************************************************)
(* Properties of the batch (specification Spec).                           *)
(***************************************************************************)
\* the store holds exactly the uploaded objects, as uploaded
StoreUntouched ==
    /\ DOMAIN objects = UploadedKeys
    /\ \A b \in Uploaded : objects[b.BlobKey].ContentType = b.ContentType
    /\ nextKey = Cardinality(UploadedKeys) + 1

\* C11: when the upload parser fails, ParseBlobs returns the parser's error
\* and processes nothing: no blobstore call is issued and the store is as it
\* was.
C11_ParseErrorAborts ==
    (pc # "ParseUpload" /\ request.fault # "nil") =>
        /\ err = request.fault
        /\ pc = "done"
        /\ blobs = NilBlobs
        /\ ops = << >>
        /\ confirmed = {}
        /\ StoreUntouched

\* C11 witness: ParseBlobs has returned the parser's error for an upload
\* that carries a supported image
C11_ParseFailed ==
    /\ pc = "done"
    /\ err \in ParseErrors
    /\ \E b \in Uploaded : ~Unsupported(b)

\* the entries of the parsed mapping
Entries ==
    UNION { { <<f, i>> : i \in DOMAIN request.blobs[f] } :
            f \in DOMAIN request.blobs }

\* steps handleBlob has left at each of its positions
StepsLeft ==
    [p \in {"validate", "decode", "resize", "create", "encode", "close",
            "key", "stat", "delete", "return"} |->
        CASE p = "validate" -> 10 [] p = "decode" -> 9 [] p = "resize" -> 8
          [] p = "create" -> 7    [] p = "encode" -> 6 [] p = "close" -> 5
          [] p = "key" -> 4       [] p = "stat" -> 3   [] p = "delete" -> 2
          [] p = "return" -> 1]

\* steps one entry takes at most, its loop step included
EntrySteps == Cardinality(DOMAIN StepsLeft) + 1

\* steps the fields in the set take at most
RECURSIVE FieldSteps(_, _)
FieldSteps(fields, slices) ==
    IF fields = {} THEN 0
    ELSE LET f == CHOOSE g \in fields : TRUE
         IN  2 + EntrySteps * Len(slices[f])
               + FieldSteps(fields \ {f}, slices)

\* an upper bound of the steps ParseBlobs has left
Remaining ==
    CASE pc = "done" -> 0
      [] pc = "ParseUpload" ->
            2 + FieldSteps(DOMAIN request.blobs, request.blobs)
      [] pc = "range" -> 1 + FieldSteps(todo, blobs)
      [] pc = "slice" ->
            2 + FieldSteps(todo \ {keyName}, blobs)
              + EntrySteps * (Len(blobs[keyName]) + 1 - index)
      [] OTHER ->
            2 + FieldSteps(todo \ {keyName}, blobs)
              + EntrySteps * (Len(blobs[keyName]) - index)
              + StepsLeft[pc]

\* some step of the program can be taken; Resize has no guard but its
\* position
CanStep ==
    \/ pc = "resize"
    \/ ENABLED (\/ ParseBlobs \/ RangeBlobs \/ handleBlobSlice \/ Validate
                \/ Decode \/ Create \/ Encode \/ Close \/ Key \/ Stat
                \/ Delete \/ Return)

\* what holds of the batch while it runs and when it is done
BatchState ==
    /\ \A e \in DOMAIN calls : e \in Entries /\ calls[e] = 1
    /\ (pc = "return" /\ ~Unsupported(Original) /\ ~SomeStepFailed) =>
          /\ blob # Original
          /\ blob = [BlobKey |-> writer.key, ContentType |-> ImageJpeg]
          /\ blob.BlobKey \in DOMAIN objects
    /\ (pc = "done" /\ request.fault = "nil") =>
          /\ err = "nil"
          /\ DOMAIN calls = Entries
          /\ \A e \in Entries :
               \A c \in confirmed :
                 c[1] = request.blobs[e[1]][e[2]].BlobKey =>
                   blobs[e[1]][e[2]].BlobKey = c[2]

\* C12: a failure while processing one object never aborts the batch.  Every
\* step brings ParseBlobs nearer to its end and it cannot stop before it;
\* when it is done, err is nil and handleBlob was called exactly once for
\* every entry; an entry whose own steps all succeed is replaced by its new
\* ref, whatever happened to the others.
C12_BatchCompletes ==
    /\ [](pc # "done" => CanStep)
    /\ [][Remaining' < Remaining]_vars
    /\ []BatchState

\* C12 witness: ParseBlobs is done, one supported entry kept its ref after a
\* failure and another one was replaced
C12_DoneAfterFailure ==
    /\ pc = "done"
    /\ err = "nil"
    /\ \E e \in Entries :
         /\ ~Unsupported(request.blobs[e[1]][e[2]])
         /\ blobs[e[1]][e[2]] = request.blobs[e[1]][e[2]]
    /\ \E e \in Entries : blobs[e[1]][e[2]] # request.blobs[e[1]][e[2]]

\* Stat of the new key succeeded in the current call of handleBlob
StatSucceeded == \E i \in DOMAIN ops : ops[i] = Call("stat", newKey, TRUE)

\* C13: when every step up to and including Stat of the new key succeeded,
\* handleBlob returns the new ref whether the delete of the old object
\* succeeded or failed: the delete is the last call, its outcome is free, the
\* value returned is the ref Stat gave for the new key, and err stays nil.
C13_DeleteFailureSwallowed ==
    (pc = "return" /\ StatSucceeded) =>
        /\ ~SomeStepFailed
        /\ ops[Len(ops)].op = "delete"
        /\ ops[Len(ops)].key = Original.BlobKey
        /\ blob = newBlobInfo
        /\ blob = [BlobKey |-> newKey, ContentType |-> ImageJpeg]
        /\ blob # Original
        /\ newKey \in DOMAIN objects
        /\ err = "nil"

\* C13 witness: handleBlob returns the new ref after the delete of the old
\* object failed, and the old object is still stored
C13_DeleteFailed ==
    /\ pc = "return"
    /\ StatSucceeded
    /\ ~ops[Len(ops)].ok
    /\ ops[Len(ops)].op = "delete"
    /\ Original.BlobKey \in DOMAIN objects
    /\ blob.BlobKey = newKey

\* the objects of the store that the upload did not bring
Created == DOMAIN objects \ UploadedKeys

\* C14: every object handleBlob creates has content type image/jpeg, whatever
\* the supported type of its input was: the writer is opened for image/jpeg,
\* every stored object that was not uploaded is image/jpeg, and every entry of
\* the output that differs from its input entry is an image/jpeg ref to an
\* image/jpeg object.
C14_NewObjectsAreJpeg ==
    /\ writer # NoWriter => writer.ContentType = ImageJpeg
    /\ \A k \in Created : objects[k].ContentType = ImageJpeg
    /\ (pc # "ParseUpload" /\ err = "nil") =>
          \A f \in DOMAIN blobs : \A i \in DOMAIN blobs[f] :
              blobs[f][i] # request.blobs[f][i] =>
                  /\ blobs[f][i].ContentType = ImageJpeg
                  /\ blobs[f][i].BlobKey \in Created
                  /\ objects[blobs[f][i].BlobKey].ContentType = ImageJpeg

\* C14 witness: ParseBlobs is done and an entry uploaded as IMAGE/PNG was
\* replaced
C14_PngReplaced ==
    /\ pc = "done"
    /\ err = "nil"
    /\ \E f \in DOMAIN blobs : \E i \in DOMAIN blobs[f] :
          /\ request.blobs[f][i].ContentType = UpperImagePng
          /\ blobs[f][i] # request.blobs[f][i]

\* the ref the caller gets for an entry: the one in the mapping, or the one
\* handleBlob is about to return for the entry it has just handled
Handed(e) ==
    IF pc = "return" /\ e = <<keyName, index>>
    THEN blob
    ELSE blobs[e[1]][e[2]]

\* no ref of the mapping dangles, and an uploaded object is absent only if
\* the ref of its replacement stands in its place
NoDanglingRef ==
    (pc # "ParseUpload" /\ err = "nil") =>
        /\ \A e \in Entries : Handed(e).BlobKey \in DOMAIN objects
        /\ \A e \in Entries :
             LET old == request.blobs[e[1]][e[2]]
             IN  old.BlobKey \notin DOMAIN objects =>
                   /\ Handed(e) # old
                   /\ <<old.BlobKey, Handed(e).BlobKey>> \in confirmed
        /\ \A c \in confirmed : c[2] \in DOMAIN objects

\* a step that removes an object removes one object, the old object of the
\* entry being handled, and returns the ref of a stored new object
OnlyOldDeleted ==
    \A k \in DOMAIN objects \ DOMAIN objects' :
        /\ DOMAIN objects \ DOMAIN objects' = {k}
        /\ k = Original.BlobKey
        /\ k \in UploadedKeys
        /\ pc' = "return"
        /\ blob' # Original
        /\ blob'.BlobKey \in DOMAIN objects'
        /\ blob'.BlobKey \notin UploadedKeys

\* C17: ParseBlobs never hands the caller a dangling reference.  The parsed
\* entries refer to distinct stored objects and only the program changes the
\* store; then every ref of the mapping refers to an object of the store,
\* whatever succeeded and failed, and the only objects ever deleted are old
\* objects whose replacement ref is returned in their place.
C17_NoDanglingRef ==
    /\ []NoDanglingRef
    /\ [][OnlyOldDeleted]_vars

\* C17 witness: ParseBlobs is done; one old object was deleted, another was
\* replaced but is still stored, and the store holds an object no ref of the
\* mapping refers to
C17_DoneWithDeletedAndKept ==
    /\ pc = "done"
    /\ err = "nil"
    /\ \E e \in Entries :
          request.blobs[e[1]][e[2]].BlobKey \notin DOMAIN objects
    /\ \E e \in Entries :
          /\ blobs[e[1]][e[2]] # request.blobs[e[1]][e[2]]
          /\ request.blobs[e[1]][e[2]].BlobKey \in DOMAIN objects
    /\ \E k \in DOMAIN objects \ UploadedKeys :
          \A e \in Entries : blobs[e[1]][e[2]].BlobKey # k

(***************************************************************************)
(* Properties of the size computation, continued (specification SpecSize). *)
(***************************************************************************)
\* the height after the first pass as the documentation computes it
Intermediate == (size.height * options.Size) \div size.width

\* C15: when both width and height exceed the maximum, the first pass sets
\* the width to the maximum and the height to floor(height * max / width);
\* only if that height still exceeds the maximum, the second pass sets the
\* height to the maximum and the width to floor(max * max / that height).
C15_TwoPassExactFloor ==
    (Resized1 /\ options.Size > 0
        /\ size.width > options.Size /\ size.height > options.Size) =>
        /\ size.pass1
        /\ size.pass2 = (Intermediate > options.Size)
        /\ IF Intermediate > options.Size
           THEN /\ size.size_y = options.Size
                /\ size.size_x =
                     (options.Size * options.Size) \div Intermediate
           ELSE /\ size.size_x = options.Size
                /\ size.size_y = Intermediate

\* C18: whenever the resize step runs, on an image of width and height at
\* least 1, both target dimensions handed to resize.Resize are at least 1.
C18_TargetAtLeastOne ==
    (Resized1 /\ size.resized /\ size.width >= 1 /\ size.height >= 1) =>
        /\ size.size_x >= 1
        /\ size.size_y >= 1

(***************************************************************************)
(* Properties of validateMimeType (specification SpecMime).                *)
(***************************************************************************)
\* validateMimeType has returned, and what it returned
Validated == pc \in {"decode", "return"}
Accepted  == pc = "decode"

\* the four supported content types, spelled out
Recognized ==
    { <<"i", "m", "a", "g", "e", "/", "j", "p", "e", "g">>,
      <<"i", "m", "a", "g", "e", "/", "j", "p", "g">>,
      <<"i", "m", "a", "g", "e", "/", "p", "n", "g">>,
      <<"i", "m", "a", "g", "e", "/", "g", "i", "f">> }

\* str is t up to the case of its ASCII letters
SameButCase(str, t) ==
    /\ Len(str) = Len(t)
    /\ \A i \in DOMAIN t : str[i] \in {t[i], Upper(t[i])}

\* C16: validateMimeType returns true exactly when the content type,
\* lower-cased, is image/jpeg, image/jpg, image/png or image/gif; it returns
\* false for every other string, the empty string and a supported type with
\* more characters before or after it included, and it returns for every
\* string.  For a content type of ASCII characters, true is returned exactly
\* for the spellings of the four types in upper and lower case letters.
C16_ExactlyAllowed ==
    /\ pc = "validate" => validateMimeType(blob) \in BOOLEAN
    /\ Validated =>
          LET contentType == Original.ContentType
          IN  /\ Accepted <=> ToLower(contentType) \in Recognized
              /\ contentType = << >> => ~Accepted
              /\ Len(contentType) \notin {9, 10} => ~Accepted
              /\ (\A i \in DOMAIN contentType :
                      contentType[i] \notin {DottedI, Kelvin}) =>
                    (Accepted <=>
                       \E t \in Recognized : SameButCase(contentType, t))

\* C16 witness: a content type that is none of the four strings as they are
\* spelled in allowedMimeTypes was accepted
C16_MixedCaseAccepted ==
    /\ Accepted
    /\ Original.ContentType \notin Recognized
    /\ ops = << >>

====
